---- MODULE Spec2Model ----
(***************************************************************************)
(* cust_core: the DeviceCopy marker trait and its impls.                   *)
(*                                                                         *)
(* A type is a term [k, n, a]: k the head (type constructor), n the length *)
(* of a fixed-size array (0 for every other head), a the type arguments.   *)
(* The trait solver resolves the obligation `goal: DeviceCopy` against the *)
(* impls of lib.rs, the enabled cargo features and the impls a downstream  *)
(* crate requested for its own types.                                      *)
(***************************************************************************)
EXTENDS Integers, Sequences, FiniteSets, TLC

VARIABLES features, requested, goal, stack, pc, result, steps

vars == <<features, requested, goal, stack, pc, result, steps>>

(***************************************************************************)
(* Bounds of the model                                                     *)
(***************************************************************************)
\* array lengths tried: 0..MaxArrayLen
MaxArrayLen == 2
\* largest tuple arity tried (one beyond the largest arity that has an impl)
MaxProbeArity == 9
\* number of wrapping rounds applied to the seed types
MaxNest == 2

(***************************************************************************)
(* Type terms                                                              *)
(***************************************************************************)
Ty(k, n, a) == [k |-> k, n |-> n, a |-> a]
Prim(name) == Ty(name, 0, <<>>)
Option(t) == Ty("Option", 0, <<t>>)
ResultOf(l, r) == Ty("Result", 0, <<l, r>>)
PhantomData(t) == Ty("PhantomData", 0, <<t>>)
Wrapping(t) == Ty("Wrapping", 0, <<t>>)
Array(t, len) == Ty("Array", len, <<t>>)
Tuple(ts) == Ty("Tuple", 0, ts)
Unit == Tuple(<<>>)
Ref(t) == Ty("Ref", 0, <<t>>)
VecOf(t) == Ty("Vec", 0, <<t>>)
User(name) == Ty(name, 0, <<>>)
NoGoal == Ty("", 0, <<>>)

\* lib.rs:72-79 with u128 and i128 left out of the list
BaseTypesWithout128 ==
    { "usize", "u8", "u16", "u32", "u64",
      "isize", "i8", "i16", "i32", "i64",
      "f32", "f64",
      "bool", "char",
      "NonZeroU8", "NonZeroU16", "NonZeroU32", "NonZeroU64", "NonZeroU128" }

(***************************************************************************)
(* lib.rs:72-79  impl_device_copy!( ... )                                  *)
(***************************************************************************)
BaseTypes ==
    { "usize", "u8", "u16", "u32", "u64", "u128",
      "isize", "i8", "i16", "i32", "i64", "i128",
      "f32", "f64",
      "bool", "char",
      "NonZeroU8", "NonZeroU16", "NonZeroU32", "NonZeroU64", "NonZeroU128" }

\* lib.rs:88 and lib.rs:122: the smallest and the largest tuple with an impl
MinTupleArity == 2
MaxTupleArity == 8

(***************************************************************************)
(* lib.rs:142-165  the feature-gated impls                                 *)
(***************************************************************************)
Features == {"vek", "glam", "mint"}

VekTypes ==
    { "vek::Vec2", "vek::Vec3", "vek::Vec4", "vek::Extent2", "vek::Extent3",
      "vek::Rgb", "vek::Rgba", "vek::Mat2", "vek::Mat3", "vek::Mat4",
      "vek::CubicBezier2", "vek::CubicBezier3", "vek::Quaternion" }

GlamTypes ==
    { "glam::Vec2", "glam::Vec3", "glam::Vec4",
      "glam::IVec2", "glam::IVec3", "glam::IVec4" }

\* mint::X<elem> as the pair <<X, elem>>
MintTypes ==
    { <<"mint::Vector2", "i16">>, <<"mint::Vector2", "i32">>, <<"mint::Vector2", "f32">>,
      <<"mint::Vector3", "u16">>, <<"mint::Vector3", "u32">>, <<"mint::Vector3", "i16">>,
      <<"mint::Vector3", "i32">>, <<"mint::Vector3", "f32">>,
      <<"mint::Vector4", "i16">>, <<"mint::Vector4", "i32">>, <<"mint::Vector4", "f32">>,
      <<"mint::ColumnMatrix2", "f32">>, <<"mint::ColumnMatrix3", "f32">>,
      <<"mint::ColumnMatrix4", "f32">>, <<"mint::ColumnMatrix3x4", "f32">>,
      <<"mint::RowMatrix2", "f32">>, <<"mint::RowMatrix3", "f32">>,
      <<"mint::RowMatrix4", "f32">>, <<"mint::RowMatrix3x4", "f32">> }

MintHeads == { p[1] : p \in MintTypes }

(***************************************************************************)
(* The types of the downstream crate (the doc examples of lib.rs:15-46):   *)
(* their fields and whether they derive Copy.                              *)
(***************************************************************************)
UserNames == {"MyStruct", "Pod", "HostVec"}

UserFields(name) ==
    CASE name = "MyStruct" -> <<Prim("u64")>>
      [] name = "Pod"      -> <<Prim("u64")>>
      [] name = "HostVec"  -> <<VecOf(Prim("u64"))>>
      [] OTHER             -> <<>>

\* #[derive(Clone)] alone for MyStruct (lib.rs:18, lib.rs:41); Pod derives Copy too
UserDerivesCopy(name) == name = "Pod"

(***************************************************************************)
(* core::marker::Copy, the supertrait of lib.rs:62, as the standard        *)
(* library and the crates behind the features implement it.                *)
(***************************************************************************)
RECURSIVE IsCopy(_)
IsCopy(t) ==
    CASE t.k \in UserNames ->
            /\ UserDerivesCopy(t.k)
            /\ \A i \in 1..Len(UserFields(t.k)) : IsCopy(UserFields(t.k)[i])
      [] t.k = "Vec" -> FALSE
      [] t.k \in {"Ref", "PhantomData"} -> TRUE
      [] OTHER -> \A i \in 1..Len(t.a) : IsCopy(t.a[i])

\* lib.rs:62  pub unsafe trait DeviceCopy: Copy {}
\* an impl for a concrete type is accepted only if the type is Copy
SupertraitOk(t) == IsCopy(t)

(***************************************************************************)
(* The impls.  Each operator gives the impls of one source item whose head *)
(* unifies with t, as a sequence with one entry per impl: the sequence of  *)
(* types its where-clauses require to be DeviceCopy.                       *)
(***************************************************************************)
None == <<>>
NoBound == << <<>> >>

\* lib.rs:64-79
ImplBase(t) == IF t.k \in BaseTypes /\ t.a = <<>> THEN NoBound ELSE None

\* lib.rs:80 with the bound put on Option<T> itself instead of on T
ImplOptionCyclic(t) == IF t.k = "Option" THEN << <<t>> >> ELSE None

\* lib.rs:80  unsafe impl<T: DeviceCopy> DeviceCopy for Option<T> {}
ImplOption(t) == IF t.k = "Option" THEN <<t.a>> ELSE None

\* lib.rs:81 with the bound on R forgotten
ImplResultLeftOnly(t) == IF t.k = "Result" THEN <<SubSeq(t.a, 1, 1)>> ELSE None

\* lib.rs:81  unsafe impl<L: DeviceCopy, R: DeviceCopy> DeviceCopy for Result<L, R> {}
ImplResult(t) == IF t.k = "Result" THEN <<t.a>> ELSE None

\* lib.rs:82 with the bound on T dropped
ImplPhantomDataUnbounded(t) == IF t.k = "PhantomData" THEN NoBound ELSE None

\* lib.rs:82  unsafe impl<T: ?Sized + DeviceCopy> DeviceCopy for PhantomData<T> {}
ImplPhantomData(t) == IF t.k = "PhantomData" THEN <<t.a>> ELSE None

\* lib.rs:84  unsafe impl DeviceCopy for PhantomData<&()> {}
ImplPhantomRefUnit(t) == IF t = PhantomData(Ref(Unit)) THEN NoBound ELSE None

\* lib.rs:85  unsafe impl<T: DeviceCopy> DeviceCopy for Wrapping<T> {}
ImplWrapping(t) == IF t.k = "Wrapping" THEN <<t.a>> ELSE None

\* lib.rs:86 written for the lengths 1.. only
ImplArrayNonEmpty(t) == IF t.k = "Array" /\ t.n > 0 THEN <<t.a>> ELSE None

\* lib.rs:86  unsafe impl<T: DeviceCopy, const N: usize> DeviceCopy for [T; N] {}
ImplArray(t) == IF t.k = "Array" THEN <<t.a>> ELSE None

\* lib.rs:87  unsafe impl DeviceCopy for () {}
ImplUnit(t) == IF t = Unit THEN NoBound ELSE None

\* lib.rs:88-124 with one more impl, for the tuple of no elements
ImplTupleFromZero(t) ==
    IF t.k = "Tuple" /\ Len(t.a) \in 0..MaxTupleArity THEN <<t.a>> ELSE None

\* lib.rs:88-124  one impl per arity, every element bounded by DeviceCopy
ImplTuple(t) ==
    IF t.k = "Tuple" /\ Len(t.a) \in MinTupleArity..MaxTupleArity THEN <<t.a>> ELSE None

\* lib.rs:126-132, 145-151  unsafe impl<T: DeviceCopy> DeviceCopy for $strukt<T> {}
ImplVek(t, F) == IF "vek" \in F /\ t.k \in VekTypes THEN <<t.a>> ELSE None

\* lib.rs:134-140, 153-156  unsafe impl DeviceCopy for $strukt {}
ImplGlam(t, F) ==
    IF "glam" \in F /\ t.k \in GlamTypes /\ t.a = <<>> THEN NoBound ELSE None

\* lib.rs:158 gated on the feature of lib.rs:153
ImplMintUnderGlam(t, F) ==
    IF /\ "glam" \in F
       /\ Len(t.a) = 1
       /\ t.a[1].a = <<>>
       /\ <<t.k, t.a[1].k>> \in MintTypes
    THEN NoBound ELSE None

\* lib.rs:158-165
ImplMint(t, F) ==
    IF /\ "mint" \in F
       /\ Len(t.a) = 1
       /\ t.a[1].a = <<>>
       /\ <<t.k, t.a[1].k>> \in MintTypes
    THEN NoBound ELSE None

\* lib.rs:44 written for every type of the crate instead of the one named
ImplManualBlanket(t, R) ==
    IF t.k \in UserNames /\ (\E x \in UserNames : R[x] = "manual" /\ SupertraitOk(User(x)))
    THEN NoBound ELSE None

\* lib.rs:36-46  unsafe impl DeviceCopy for MyStruct { }  in the downstream crate
ImplManual(t, R) ==
    IF t.k \in UserNames /\ R[t.k] = "manual" /\ SupertraitOk(t) THEN NoBound ELSE None

\* #[derive(DeviceCopy)]: the impl for the type, accepted only if every field
\* type is DeviceCopy
ImplDerive(t, R) ==
    IF t.k \in UserNames /\ R[t.k] = "derive" /\ SupertraitOk(t)
    THEN <<UserFields(t.k)>> ELSE None

\* every impl in scope whose head unifies with t, in source order
ImplsFor(t, F, R) ==
    ImplBase(t) \o ImplOption(t) \o ImplResult(t) \o ImplPhantomData(t)
    \o ImplPhantomRefUnit(t) \o ImplWrapping(t) \o ImplArray(t) \o ImplUnit(t)
    \o ImplTuple(t) \o ImplVek(t, F) \o ImplGlam(t, F) \o ImplMint(t, F)
    \o ImplManual(t, R) \o ImplDerive(t, R)

\* t: DeviceCopy holds iff some impl applies and all its where-clauses hold
RECURSIVE DeviceCopy(_, _, _)
DeviceCopy(t, F, R) ==
    \E i \in 1..Len(ImplsFor(t, F, R)) :
        \A j \in 1..Len(ImplsFor(t, F, R)[i]) :
            DeviceCopy(ImplsFor(t, F, R)[i][j], F, R)

\* the impls that apply to t
Applicable(t, F, R) ==
    { i \in 1..Len(ImplsFor(t, F, R)) :
        \A j \in 1..Len(ImplsFor(t, F, R)[i]) :
            DeviceCopy(ImplsFor(t, F, R)[i][j], F, R) }

\* the types a type is built from: its arguments, or the fields of a struct
Parts(t) == IF t.k \in UserNames THEN UserFields(t.k) ELSE t.a

\* nesting depth of a type
RECURSIVE NestDepth(_)
NestDepth(t) ==
    IF Parts(t) = <<>> THEN 1
    ELSE 1 + (CHOOSE m \in { NestDepth(Parts(t)[i]) : i \in 1..Len(Parts(t)) } :
                 \A i \in 1..Len(Parts(t)) : NestDepth(Parts(t)[i]) <= m)

\* number of type constructors in a type
RECURSIVE TypeSize(_)
TypeSize(t) ==
    IF Parts(t) = <<>> THEN 1
    ELSE LET RECURSIVE Sum(_)
             Sum(i) == IF i = 0 THEN 0 ELSE TypeSize(Parts(t)[i]) + Sum(i - 1)
         IN 1 + Sum(Len(Parts(t)))

(***************************************************************************)
(* The candidate types the obligations are drawn from                      *)
(***************************************************************************)
\* every primitive and every core::num::NonZero* type
IntNames ==
    { "usize", "u8", "u16", "u32", "u64", "u128",
      "isize", "i8", "i16", "i32", "i64", "i128" }
NonZeroNames ==
    { "NonZeroUsize", "NonZeroU8", "NonZeroU16", "NonZeroU32", "NonZeroU64", "NonZeroU128",
      "NonZeroIsize", "NonZeroI8", "NonZeroI16", "NonZeroI32", "NonZeroI64", "NonZeroI128" }
PrimNames == IntNames \cup NonZeroNames \cup {"f32", "f64", "bool", "char"}

ThirdPartyLeaves ==
    { Prim("glam::Vec2"), Prim("glam::IVec4"),
      Ty("mint::Vector2", 0, <<Prim("f32")>>),
      Ty("mint::Vector2", 0, <<Prim("u16")>>),
      Ty("mint::RowMatrix3x4", 0, <<Prim("f32")>>) }

Seeds ==
    { Prim("f32"), Prim("u32"), VecOf(Prim("u64")), Ref(Unit), Unit,
      User("MyStruct"), User("Pod"), User("HostVec"), Prim("glam::Vec2"),
      Ty("mint::Vector2", 0, <<Prim("f32")>>) }

PairSeeds == { Prim("f32"), VecOf(Prim("u64")), User("Pod"), Prim("glam::Vec2") }

\* a tuple of k elements, all g except b at position p (p = 0: all g)
TupleWith(k, g, p, b) == Tuple([i \in 1..k |-> IF i = p THEN b ELSE g])

Tuples ==
    { TupleWith(k, Prim("u32"), p, VecOf(Prim("u64"))) :
        k \in 0..MaxProbeArity, p \in 0..MaxProbeArity }

Unary(S) ==
    UNION { { Option(t), Wrapping(t), PhantomData(t),
              Ty("vek::Vec2", 0, <<t>>), Ty("vek::Quaternion", 0, <<t>>) } : t \in S }

Arrays(S) == { Array(t, n) : t \in S, n \in 0..MaxArrayLen }

Results(S) == { ResultOf(l, r) : l \in S, r \in S }

Pairs(S) == { Tuple(<<l, r>>) : l \in S, r \in S }

\* n rounds of wrapping
RECURSIVE Nested(_, _)
Nested(S, n) ==
    IF n = 0 THEN S
    ELSE LET W == Nested(S, n - 1)
         IN W \cup { Option(t) : t \in W } \cup { Tuple(<<Prim("u32"), t>>) : t \in W }

Examples ==
    { Tuple(<<Prim("u32"), Tuple(<<Prim("f32"), Prim("u8"), Prim("bool")>>)>>),
      Tuple(<<Prim("u32"), Option(Prim("i32"))>>),
      Array(Prim("f32"), 4),
      Ty("vek::Vec2", 0, <<Prim("glam::Vec2")>>),
      Option(PhantomData(Ref(Unit))) }

Universe ==
    { Prim(n) : n \in PrimNames } \cup ThirdPartyLeaves \cup Seeds \cup Tuples
    \cup Unary(Seeds) \cup Arrays(PairSeeds) \cup Results(PairSeeds) \cup Pairs(PairSeeds)
    \cup Nested({Prim("f32"), VecOf(Prim("u64"))}, MaxNest)
    \cup Examples

(***************************************************************************)
(* The build: the features are fixed when the crate is configured; the     *)
(* downstream crate adds impls for its own types; the trait solver         *)
(* resolves one obligation `goal: DeviceCopy` at a time, depth first, one  *)
(* frame per nested obligation.                                            *)
(***************************************************************************)
Frame(t, F, R) == [t |-> t, alts |-> ImplsFor(t, F, R), i |-> 1]

Top == stack[Len(stack)]
Pop == SubSeq(stack, 1, Len(stack) - 1)

Init ==
    /\ features \in SUBSET Features
    /\ requested = [x \in UserNames |-> "none"]
    /\ goal = NoGoal
    /\ stack = <<>>
    /\ pc = "idle"
    /\ result = "unknown"
    /\ steps = 0

\* unsafe impl DeviceCopy for x {}  (lib.rs:44); a second impl for the same
\* type is a coherence error
ManualAssert(x) ==
    /\ pc = "idle"
    /\ requested[x] = "none"
    /\ requested' = [requested EXCEPT ![x] = "manual"]
    /\ UNCHANGED <<features, goal, stack, pc, result, steps>>

\* #[derive(DeviceCopy)] on x  (lib.rs:18)
DeriveDeviceCopy(x) ==
    /\ pc = "idle"
    /\ requested[x] = "none"
    /\ requested' = [requested EXCEPT ![x] = "derive"]
    /\ UNCHANGED <<features, goal, stack, pc, result, steps>>

\* a use site requires t: DeviceCopy
StartQuery(t) ==
    /\ pc = "idle"
    /\ goal' = t
    /\ stack' = <<Frame(t, features, requested)>>
    /\ pc' = "solving"
    /\ result' = "unknown"
    /\ steps' = 0
    /\ UNCHANGED <<features, requested>>

\* the obligation of the top frame is decided: hand the answer to the frame
\* below, or finish when it was the goal
Return(ok) ==
    /\ steps' = steps + 1
    /\ IF Len(stack) = 1
       THEN /\ stack' = <<>>
            /\ pc' = "done"
            /\ result' = IF ok THEN "holds" ELSE "fails"
       ELSE LET below == stack[Len(stack) - 1]
                next == IF ok THEN [below EXCEPT !.i = below.i + 1]
                        ELSE [below EXCEPT !.alts = Tail(below.alts), !.i = 1]
            IN /\ stack' = [Pop EXCEPT ![Len(stack) - 1] = next]
               /\ UNCHANGED <<pc, result>>
    /\ UNCHANGED <<features, requested, goal>>

\* no impl is left for the obligation
Fail ==
    /\ pc = "solving"
    /\ Top.alts = <<>>
    /\ Return(FALSE)

\* every where-clause of the selected impl holds
Succeed ==
    /\ pc = "solving"
    /\ Top.alts # <<>>
    /\ Top.i > Len(Head(Top.alts))
    /\ Return(TRUE)

\* the next where-clause of the selected impl becomes a nested obligation
Descend ==
    /\ pc = "solving"
    /\ Top.alts # <<>>
    /\ Top.i <= Len(Head(Top.alts))
    /\ stack' = Append(stack, Frame(Head(Top.alts)[Top.i], features, requested))
    /\ steps' = steps + 1
    /\ UNCHANGED <<features, requested, goal, pc, result>>

\* the answer is used; the next obligation can be posed
Finish ==
    /\ pc = "done"
    /\ pc' = "idle"
    /\ goal' = NoGoal
    /\ result' = "unknown"
    /\ steps' = 0
    /\ UNCHANGED <<features, requested, stack>>

Next ==
    \/ \E x \in UserNames : ManualAssert(x)
    \/ \E x \in UserNames : DeriveDeviceCopy(x)
    \/ \E t \in Universe : StartQuery(t)
    \/ Fail
    \/ Succeed
    \/ Descend
    \/ Finish

Spec == Init /\ [][Next]_vars

TypeOK ==
    /\ features \subseteq Features
    /\ requested \in [UserNames -> {"none", "manual", "derive"}]
    /\ pc \in {"idle", "solving", "done"}
    /\ result \in {"unknown", "holds", "fails"}
    /\ steps \in Nat

(***************************************************************************)
(* Properties                                                              *)
(***************************************************************************)
Holds(t) == DeviceCopy(t, features, requested)
AllPartsHold(t) == \A i \in 1..Len(t.a) : Holds(t.a[i])

\* the composite shapes of the closure rules: array, tuple of 2..8, Option,
\* Result, Wrapping
SupportedShape(t) ==
    \/ t.k \in {"Option", "Result", "Wrapping", "Array"}
    \/ t.k = "Tuple" /\ Len(t.a) \in 2..8

\* the solver's answer is the declarative reading of the impls
SolverAgrees == pc = "done" => (result = "holds" <=> Holds(goal))

\* C1: a supported composite shape (array of any length including 0, tuple of
\* arity 2..8, Option, Result, Wrapping) whose constituents are all
\* transferable is transferable.
C1_ClosureOfTransferable ==
    (pc = "done" /\ SupportedShape(goal) /\ AllPartsHold(goal)) => result = "holds"

C1_Witness ==
    /\ pc = "done"
    /\ goal = Array(Prim("f32"), 0)
    /\ result = "holds"

\* C2: a supported composite shape with at least one constituent that is not
\* transferable is not transferable.
C2_ClosureOnlyOfTransferable ==
    (pc = "done" /\ SupportedShape(goal) /\ ~AllPartsHold(goal)) => result = "fails"

C2_Witness ==
    /\ pc = "done"
    /\ goal = TupleWith(8, Prim("u32"), 8, VecOf(Prim("u64")))
    /\ result = "fails"

\* C3 as claimed: PhantomData<T> is transferable for any T, transferable or not.
C3_MarkerUnconditional ==
    (pc = "done" /\ goal.k = "PhantomData") => result = "holds"

\* C3 amended: PhantomData<T> is transferable exactly when T is transferable
\* or T is the reference-shaped tag &().
C3_MarkerOfTransferableOrRefUnit ==
    (pc = "done" /\ goal.k = "PhantomData")
        => (result = "holds" <=> (goal.a[1] = Ref(Unit) \/ Holds(goal.a[1])))

C3_Witness ==
    /\ pc = "done"
    /\ goal = PhantomData(VecOf(Prim("u64")))
    /\ result = "fails"

\* C4 as claimed: every integer, float, bool, char and the NonZero wrapper of
\* every one of those integers is transferable.
C4_AllPrimitivesAndNonZero ==
    (pc = "done" /\ goal \in { Prim(n) : n \in PrimNames }) => result = "holds"

\* C4 amended: every integer, float, bool and char is transferable, and of
\* the NonZero wrappers exactly NonZeroU8, U16, U32, U64 and U128 are.
C4_PrimitivesAndUnsignedNonZero ==
    (pc = "done" /\ goal \in { Prim(n) : n \in PrimNames })
        => (result = "holds" <=>
              goal.k \notin { "NonZeroUsize", "NonZeroIsize", "NonZeroI8", "NonZeroI16",
                              "NonZeroI32", "NonZeroI64", "NonZeroI128" })

C4_Witness ==
    /\ pc = "done"
    /\ goal = Prim("NonZeroU128")
    /\ result = "holds"

\* C5: a type can be registered as transferable without being Copy: a manual
\* assertion makes its type transferable whether or not the type is Copy.
C5_NotCopyStillTransferable ==
    (pc = "done" /\ goal.k \in UserNames /\ requested[goal.k] = "manual")
        => result = "holds"

\* C6: a derived composite is transferable if and only if every field's type
\* is transferable.
C6_DerivedIffFields ==
    (pc = "done" /\ goal.k \in UserNames /\ requested[goal.k] = "derive")
        => (result = "holds" <=>
              \A i \in 1..Len(UserFields(goal.k)) : Holds(UserFields(goal.k)[i]))

\* C7: resolving an obligation terminates (every step is counted, the count
\* stays below twice the size of the goal, and a step is possible until the
\* answer is there), its recursion depth never exceeds the nesting depth of
\* the goal, and the pair (u32, (f32, u8, bool)) and the pair
\* (u32, Option<i32>) are transferable.
C7_TerminatesWithinNesting ==
    /\ Len(stack) <= NestDepth(goal)
    /\ steps < 2 * TypeSize(goal)
    /\ pc = "solving" => ENABLED (Fail \/ Succeed \/ Descend)
    /\ (pc = "done" /\ goal \in
            { Tuple(<<Prim("u32"), Tuple(<<Prim("f32"), Prim("u8"), Prim("bool")>>)>>),
              Tuple(<<Prim("u32"), Option(Prim("i32"))>>) })
          => result = "holds"

C7_Witness ==
    /\ pc = "done"
    /\ goal = Tuple(<<Prim("u32"), Tuple(<<Prim("f32"), Prim("u8"), Prim("bool")>>)>>)
    /\ result = "holds"
    /\ steps = 2 * TypeSize(goal) - 1

\* t is x or is built from x
RECURSIVE Mentions(_, _)
Mentions(t, x) ==
    \/ t.k = x
    \/ \E i \in 1..Len(Parts(t)) : Mentions(Parts(t)[i], x)

\* C8: a manual assertion for x changes the classification of no type that is
\* neither x nor built from x.
C8_AssertionDoesNotLeak ==
    \A x \in UserNames :
        (pc = "done" /\ requested[x] = "manual" /\ ~Mentions(goal, x))
            => (result = "holds" <=>
                  DeviceCopy(goal, features, [requested EXCEPT ![x] = "none"]))

C8_Witness ==
    /\ pc = "done"
    /\ requested["Pod"] = "manual"
    /\ Holds(User("Pod"))
    /\ goal = Option(User("MyStruct"))
    /\ result = "fails"

\* the feature whose crate defines the head of t ("" for no feature)
GroupOf(t) ==
    CASE t.k \in VekTypes -> "vek"
      [] t.k \in GlamTypes -> "glam"
      [] t.k \in MintHeads -> "mint"
      [] OTHER -> ""

RECURSIVE MentionsGroup(_, _)
MentionsGroup(t, g) ==
    \/ GroupOf(t) = g
    \/ \E i \in 1..Len(Parts(t)) : MentionsGroup(Parts(t)[i], g)

MentionsThirdParty(t) == \E g \in Features : MentionsGroup(t, g)

C10_ExactlyOneRule ==
    (pc = "done" /\ result = "holds")
        => Cardinality(Applicable(goal, features, requested)) = 1

C10_Witness ==
    /\ pc = "done"
    /\ goal = PhantomData(Ref(Unit))
    /\ result = "holds"
    /\ Len(ImplsFor(goal, features, requested)) = 2

====
